---- MODULE Spec2Model ----
(***************************************************************************)
(* The incremental Gram-Schmidt engine MatGSO<ZT, FT> of fplll/gso.cpp,    *)
(* in the instantiation MatGSO<Z_NR<mpz_t>, FP_NR<mpfr_t> > (gso.cpp:606): *)
(* integers are unbounded and zero-initialised, floating values are        *)
(* NaN-initialised.  A floating value is modelled as an exact rational     *)
(* <<n, d>> (d > 0, lowest terms) or one of the non-finite values          *)
(* <<0, 0>> (NaN), <<1, 0>> (+Inf), <<-1, 0>> (-Inf): rounding of the      *)
(* back-end is not modelled.  Rows and columns are numbered from 0.        *)
(***************************************************************************)
EXTENDS Integers, Sequences, FiniteSets, TLC

\* ----------------------------------------------------------------- bounds
\* d and the number of columns of the basis, and the number of mutators
\* (row operations, swaps, moves) a run performs
NumRows == 3
NumCols == 3
MaxOps == 1
\* the number of value bits of a long: LONG_MAX = 2^LongBits - 1
LongBits == 2
\* the number of mantissa bits of a double (DBL_MANT_DIG)
MantBits == 6

Rows == 0 .. (NumRows - 1)
Cols == 0 .. (NumCols - 1)

VARIABLES
  b, u, uInvT, g, gf, bf, rowExpo, mu, r,
  gsoValidCols, initRowSize,
  nKnownRows, nSourceRows, nKnownCols, colsLocked,
  enableIntGram, enableRowExpo, enableTransform, enableInvTransform,
  rowOpForceLong,
  rowOpFirst, rowOpLast,
  nOps, call

vars == << b, u, uInvT, g, gf, bf, rowExpo, mu, r, gsoValidCols, initRowSize,
           nKnownRows, nSourceRows, nKnownCols, colsLocked,
           enableIntGram, enableRowExpo, enableTransform, enableInvTransform,
           rowOpForceLong, rowOpFirst, rowOpLast, nOps, call >>

\* ------------------------------------------------------ integer helpers
Abs(x) == IF x < 0 THEN -x ELSE x
Sgn(x) == IF x < 0 THEN -1 ELSE IF x > 0 THEN 1 ELSE 0
Max(x, y) == IF x >= y THEN x ELSE y
Min(x, y) == IF x <= y THEN x ELSE y

RECURSIVE Gcd(_, _)
Gcd(x, y) == IF y = 0 THEN x ELSE Gcd(y, x % y)

RECURSIVE Pow2(_)
Pow2(k) == IF k <= 0 THEN 1 ELSE 2 * Pow2(k - 1)

\* Z_NR::mul_2si for a non-negative shift (the only shifts the engine's
\* row operations use).
Z_mul_2si(x, k) == x * Pow2(k)

\* ------------------------------------------------------ floating values
NaN == << 0, 0 >>

Norm(n, d) ==
  IF d = 0 THEN << Sgn(n), 0 >>
  ELSE LET s == IF d < 0 THEN -1 ELSE 1
           c == Gcd(Abs(n), Abs(d))
       IN  << (s * n) \div c, (s * d) \div c >>

is_nan(a)    == a[2] = 0 /\ a[1] = 0
is_finite(a) == a[2] # 0

set_z(z) == << z, 1 >>

F_add(x, y) ==
  IF x[2] = 0 /\ y[2] = 0
    THEN (IF x = y THEN x ELSE NaN)
  ELSE IF x[2] = 0 \/ y[2] = 0
    THEN Norm(x[1] * y[2] + y[1] * x[2], 0)
  ELSE LET c == Gcd(x[2], y[2])
       IN  Norm(x[1] * (y[2] \div c) + y[1] * (x[2] \div c),
                (x[2] \div c) * y[2])

F_neg(x) == << -x[1], x[2] >>

F_sub(x, y) == F_add(x, F_neg(y))

F_mul(x, y) == Norm(x[1] * y[1], x[2] * y[2])

F_div(x, y) ==
  IF y[1] < 0 THEN Norm(-(x[1] * y[2]), x[2] * (-y[1]))
              ELSE Norm(x[1] * y[2], x[2] * y[1])

\* value * 2^k, k of either sign
F_mul_2si(x, k) ==
  IF k >= 0 THEN Norm(x[1] * Pow2(k), x[2]) ELSE Norm(x[1], x[2] * Pow2(-k))

\* frexp's exponent: the e with 2^(e-1) <= |x| < 2^e, and 0 for x = 0
RECURSIVE Expo(_)
Expo(x) == IF x = 0 THEN 0 ELSE 1 + Expo(Abs(x) \div 2)

\* The integer a double holds after mpz_get_d_2exp: the MantBits leading
\* bits of z, the others cleared (rounding towards zero)
truncMant(z) ==
  LET drop == Expo(z) - MantBits
  IN  IF drop <= 0 THEN z
      ELSE Sgn(z) * ((Abs(z) \div Pow2(drop)) * Pow2(drop))

\* Z_NR::get_f_exp: mantissa in [0.5, 1) (or 0) and exponent
get_f_exp(z) == [f |-> Norm(truncMant(z), Pow2(Expo(z))), expo |-> Expo(z)]

\* ------------------------------------------------------ vectors, matrices
RECURSIVE dotZ(_, _, _)
dotZ(x, y, n) == IF n <= 0 THEN 0 ELSE dotZ(x, y, n - 1) + x[n - 1] * y[n - 1]

RECURSIVE dotF(_, _, _)
dotF(x, y, n) ==
  IF n <= 0 THEN set_z(0)
  ELSE F_add(dotF(x, y, n - 1), F_mul(x[n - 1], y[n - 1]))

\* NumVect::sizeNZ: the index of the last nonzero entry, plus one
RECURSIVE sizeNZn(_, _)
sizeNZn(v, n) == IF n <= 0 THEN 0 ELSE IF v[n - 1] # 0 THEN n ELSE sizeNZn(v, n - 1)
sizeNZ(v) == sizeNZn(v, NumCols)

\* NumVect::addmul over the first n entries: v + c * w
addmulN(v, w, c, n) == [k \in DOMAIN v |-> IF k < n THEN v[k] + c * w[k] ELSE v[k]]

\* std::rotate(first, first + 1, last + 1): the entry at first moves to last
rotateLeft(M, first, last) ==
  [k \in DOMAIN M |->
     IF k < first \/ k > last THEN M[k]
     ELSE IF k = last THEN M[first] ELSE M[k + 1]]

\* std::rotate(first, last, last + 1): the entry at last moves to first
rotateRight(M, first, last) ==
  [k \in DOMAIN M |->
     IF k < first \/ k > last THEN M[k]
     ELSE IF k = first THEN M[last] ELSE M[k - 1]]

swapRows(M, i, j) ==
  [k \in DOMAIN M |-> IF k = i THEN M[j] ELSE IF k = j THEN M[i] ELSE M[k]]

\* The lower triangle of a Gram matrix read symmetrically
symOf(M, i, j) == IF i >= j THEN M[i][j] ELSE M[j][i]

\* Matrix::rotateGramLeft / rotateGramRight: rows and columns first..last of
\* the lower triangle below nValid are rotated together.
rotateGramLeft(M, first, last, nValid) ==
  LET old(k) == IF k < first \/ k > last THEN k
                ELSE IF k = last THEN first ELSE k + 1
  IN  [i \in DOMAIN M |-> [j \in DOMAIN M[i] |->
         IF j <= i /\ i < nValid THEN symOf(M, old(i), old(j)) ELSE M[i][j]]]

rotateGramRight(M, first, last, nValid) ==
  LET old(k) == IF k < first \/ k > last THEN k
                ELSE IF k = first THEN last ELSE k - 1
  IN  [i \in DOMAIN M |-> [j \in DOMAIN M[i] |->
         IF j <= i /\ i < nValid THEN symOf(M, old(i), old(j)) ELSE M[i][j]]]

ZeroMat == [i \in Rows |-> [j \in Rows |-> 0]]
IdMat   == [i \in Rows |-> [j \in Rows |-> IF i = j THEN 1 ELSE 0]]
NaNMat  == [i \in Rows |-> [j \in Rows |-> NaN]]

\* ------------------------------------------------------------ the engine
\* The engine's fields as one record, so that an operation is a function
\* from engine state to engine state.
Cur ==
  [ b |-> b, u |-> u, uInvT |-> uInvT, g |-> g, gf |-> gf, bf |-> bf,
    rowExpo |-> rowExpo, mu |-> mu, r |-> r,
    gsoValidCols |-> gsoValidCols, initRowSize |-> initRowSize,
    nKnownRows |-> nKnownRows, nSourceRows |-> nSourceRows,
    nKnownCols |-> nKnownCols, colsLocked |-> colsLocked ]

Commit(S) ==
  /\ b' = S.b /\ u' = S.u /\ uInvT' = S.uInvT /\ g' = S.g /\ gf' = S.gf
  /\ bf' = S.bf /\ rowExpo' = S.rowExpo /\ mu' = S.mu /\ r' = S.r
  /\ gsoValidCols' = S.gsoValidCols /\ initRowSize' = S.initRowSize
  /\ nKnownRows' = S.nKnownRows /\ nSourceRows' = S.nSourceRows
  /\ nKnownCols' = S.nKnownCols /\ colsLocked' = S.colsLocked

Flags == << enableIntGram, enableRowExpo, enableTransform, enableInvTransform,
           rowOpForceLong >>

invalidateGSORow(S, i, newValidCols) ==
  [S EXCEPT !.gsoValidCols[i] = Min(S.gsoValidCols[i], newValidCols)]

\* updateBF taking the exponent of the first column for the maximum
maxExpoNFirst(v, n) == get_f_exp(v[0]).expo

RECURSIVE maxExpoN(_, _)
maxExpoN(v, n) ==
  IF n <= 1 THEN get_f_exp(v[0]).expo
  ELSE Max(maxExpoN(v, n - 1), get_f_exp(v[n - 1]).expo)

updateBF(S, i) ==
  LET n == Max(S.nKnownCols, S.initRowSize[i])
  IN  IF enableRowExpo
        THEN LET maxExpo == maxExpoN(S.b[i], n)
             IN  [S EXCEPT
                    !.bf[i] = [j \in Cols |->
                       IF j < n
                         THEN F_mul_2si(get_f_exp(S.b[i][j]).f,
                                        get_f_exp(S.b[i][j]).expo - maxExpo)
                         ELSE S.bf[i][j]],
                    !.rowExpo[i] = maxExpo]
        ELSE [S EXCEPT
                !.bf[i] = [j \in Cols |->
                   IF j < n THEN set_z(S.b[i][j]) ELSE S.bf[i][j]]]

invalidateGramRow(S, i) ==
  [S EXCEPT !.gf[i] = [j \in DOMAIN S.gf[i] |-> IF j <= i THEN NaN ELSE S.gf[i][j]]]

\* discoverRow without the initialisation of the Gram row
discoverGramSkip(S, i) == S

discoverGram(S, i) ==
  IF enableIntGram
    THEN [S EXCEPT !.g[i] = [j \in DOMAIN S.g[i] |->
            IF j <= i THEN dotZ(S.b[i], S.b[j], S.nKnownCols) ELSE S.g[i][j]]]
    ELSE invalidateGramRow(S, i)

discoverResetValid(S, i) == [S EXCEPT !.gsoValidCols[i] = 0]

\* discoverRow that widens nSourceRows and nKnownCols under a lock too
discoverRowWiden(S) ==
  LET i  == S.nKnownRows
      S1 == [S EXCEPT !.nKnownRows = i + 1]
      S2 == [S1 EXCEPT !.nSourceRows = S1.nKnownRows,
                       !.nKnownCols = Max(S1.nKnownCols, S1.initRowSize[i])]
  IN  discoverResetValid(discoverGram(S2, i), i)

discoverRow(S) ==
  LET i  == S.nKnownRows
      S1 == [S EXCEPT !.nKnownRows = i + 1]
      S2 == IF ~S1.colsLocked
              THEN [S1 EXCEPT !.nSourceRows = S1.nKnownRows,
                              !.nKnownCols = Max(S1.nKnownCols, S1.initRowSize[i])]
              ELSE S1
  IN  discoverResetValid(discoverGram(S2, i), i)

\* MatGSO::getGram(f, i, j): the value fetched, and the engine after the
\* fetch (a NaN gf(i, j) is recomputed from bf and stored).
getGramStore(S, i, j) ==
  IF enableIntGram \/ ~is_nan(S.gf[i][j]) THEN S
  ELSE [S EXCEPT !.gf[i][j] = dotF(S.bf[i], S.bf[j], S.nKnownCols)]

getGram(S, i, j) ==
  IF enableIntGram THEN set_z(S.g[i][j]) ELSE getGramStore(S, i, j).gf[i][j]

\* The inner loop of updateGSORow: ftmp1 -= mu(j, k) * r(i, k), k = from .. j-1
RECURSIVE gsoInner(_, _, _, _, _)
gsoInner(S, i, j, k, ftmp1) ==
  IF k >= j THEN ftmp1
  ELSE gsoInner(S, i, j, k + 1, F_sub(ftmp1, F_mul(S.mu[j][k], S.r[i][k])))

\* gsoFinish off by one: the column after the one the loop ended at
gsoFinishNext(S, i, j) == [S EXCEPT !.gsoValidCols[i] = j + 1]

\* gsoStart without the resumption: every call restarts at column 0
gsoStartZero(S, i) == 0

\* gsoFail that records the failure column in gsoValidCols[i]
gsoFailMark(S, i, j) ==
  [st |-> [S EXCEPT !.gsoValidCols[i] = j], ok |-> FALSE, stop |-> j]

\* What updateGSORow stores in gsoValidCols[i] when the loop ends at j
gsoFinish(S, i, j) == [S EXCEPT !.gsoValidCols[i] = j]

\* The column the loop of updateGSORow starts at
gsoStart(S, i) == Max(0, S.gsoValidCols[i])

\* if (!mu(i, j).is_finite()) return false;
gsoFail(S, i, j) == [st |-> S, ok |-> FALSE, stop |-> j]

\* The column loop of updateGSORow from column j on: the engine afterwards,
\* the value returned, and the column at which the loop stopped.
RECURSIVE gsoLoop(_, _, _, _)
gsoLoop(S, i, j, lastJ) ==
  IF j > lastJ THEN [st |-> gsoFinish(S, i, j), ok |-> TRUE, stop |-> j]
  ELSE LET ftmp1 == gsoInner(S, i, j, 0, getGram(S, i, j))
           S1 == [getGramStore(S, i, j) EXCEPT !.r[i][j] = ftmp1]
       IN  IF i > j
             THEN LET S2 == [S1 EXCEPT !.mu[i][j] = F_div(ftmp1, S1.r[j][j])]
                  IN  IF ~is_finite(S2.mu[i][j])
                        THEN gsoFail(S2, i, j)
                        ELSE gsoLoop(S2, i, j + 1, lastJ)
             ELSE gsoLoop(S1, i, j + 1, lastJ)

updateGSORowDiscover(S, i) == IF i >= S.nKnownRows THEN discoverRow(S) ELSE S

updateGSORow(S, i, lastJ) ==
  LET S1 == updateGSORowDiscover(S, i)
  IN  gsoLoop(S1, i, gsoStart(S1, i), lastJ)

\* ------------------------------------------------------- row operations
\* symG(i, k) in the engine: the stored lower-triangle entry
symG(S, i, k) == symOf(S.g, i, k)

\* symG(i, k) := v
setSymG(S, i, k, v) ==
  IF i >= k THEN [S EXCEPT !.g[i][k] = v] ELSE [S EXCEPT !.g[k][i] = v]

\* for (k = from; k < nKnownRows; k++) if (k != i) symG(i, k) += c * symG(j, k)
RECURSIVE gramRowLoop(_, _, _, _, _)
gramRowLoop(S, i, j, c, k) ==
  IF k >= S.nKnownRows THEN S
  ELSE IF k = i THEN gramRowLoop(S, i, j, c, k + 1)
  ELSE gramRowLoop(setSymG(S, i, k, symG(S, i, k) + c * symG(S, j, k)),
                   i, j, c, k + 1)

\* basisAddMul with uInvT[j] += c * uInvT[i]
basisAddMulSameSign(S, i, j, c) ==
  LET S1 == [S EXCEPT !.b[i] = addmulN(S.b[i], S.b[j], c, S.nKnownCols)]
      S2 == IF enableTransform
              THEN [S1 EXCEPT !.u[i] = addmulN(S1.u[i], S1.u[j], c, NumRows)]
              ELSE S1
  IN  IF enableTransform /\ enableInvTransform
        THEN [S2 EXCEPT !.uInvT[j] = addmulN(S2.uInvT[j], S2.uInvT[i], c, NumRows)]
        ELSE S2

\* b[i] += c * b[j] on nKnownCols columns, mirrored on u and uInvT
basisAddMul(S, i, j, c) ==
  LET S1 == [S EXCEPT !.b[i] = addmulN(S.b[i], S.b[j], c, S.nKnownCols)]
      S2 == IF enableTransform
              THEN [S1 EXCEPT !.u[i] = addmulN(S1.u[i], S1.u[j], c, NumRows)]
              ELSE S1
  IN  IF enableTransform /\ enableInvTransform
        THEN [S2 EXCEPT !.uInvT[j] = addmulN(S2.uInvT[j], S2.uInvT[i], -c, NumRows)]
        ELSE S2

\* g(i, i) += 2 * g(i, j) + g(j, j)
row_add_diag(S, i, j) ==
  LET ztmp1 == Z_mul_2si(S.g[i][j], 1) + S.g[j][j]
  IN  [S EXCEPT !.g[i][i] = S.g[i][i] + ztmp1]

row_add(S, i, j) ==
  LET S1 == basisAddMul(S, i, j, 1)
  IN  IF enableIntGram THEN gramRowLoop(row_add_diag(S1, i, j), i, j, 1, 0)
      ELSE S1

\* g(i, i) += g(j, j) - 2 * g(i, j)
row_sub_diag(S, i, j) ==
  LET ztmp1 == S.g[j][j] - Z_mul_2si(S.g[i][j], 1)
  IN  [S EXCEPT !.g[i][i] = S.g[i][i] + ztmp1]

row_sub(S, i, j) ==
  LET S1 == basisAddMul(S, i, j, -1)
  IN  IF enableIntGram THEN gramRowLoop(row_sub_diag(S1, i, j), i, j, -1, 0)
      ELSE S1

row_addmul_si_diag(S, i, j, x) ==
  LET S1 == [S EXCEPT !.g[i][i] = S.g[i][i] + Z_mul_2si(S.g[i][j] * x, 1)]
  IN  [S1 EXCEPT !.g[i][i] = S1.g[i][i] + (S1.g[j][j] * x) * x]

row_addmul_si(S, i, j, x) ==
  LET S1 == basisAddMul(S, i, j, x)
  IN  IF enableIntGram THEN gramRowLoop(row_addmul_si_diag(S1, i, j, x), i, j, x, 0)
      ELSE S1

\* row_addmul_si_2exp adding 2^expo * x^2 * g(j, j) to the diagonal
row_addmul_si_2exp_diagShift(S, i, j, x, expo) ==
  LET S1 == [S EXCEPT !.g[i][i] = S.g[i][i] + Z_mul_2si(S.g[i][j] * x, expo + 1)]
  IN  [S1 EXCEPT !.g[i][i] = S1.g[i][i] + Z_mul_2si((S1.g[j][j] * x) * x, expo)]

row_addmul_si_2exp_diag(S, i, j, x, expo) ==
  LET S1 == [S EXCEPT !.g[i][i] = S.g[i][i] + Z_mul_2si(S.g[i][j] * x, expo + 1)]
  IN  [S1 EXCEPT !.g[i][i] = S1.g[i][i] + Z_mul_2si((S1.g[j][j] * x) * x, 2 * expo)]

row_addmul_si_2exp(S, i, j, x, expo) ==
  LET S1 == basisAddMul(S, i, j, Z_mul_2si(x, expo))
  IN  IF enableIntGram
        THEN gramRowLoop(row_addmul_si_2exp_diag(S1, i, j, x, expo),
                         i, j, Z_mul_2si(x, expo), 0)
        ELSE S1

\* x is a ZT here; the arithmetic is that of row_addmul_si_2exp with mul
\* in place of mul_si
row_addmul_2exp_diag(S, i, j, x, expo) ==
  LET S1 == [S EXCEPT !.g[i][i] = S.g[i][i] + Z_mul_2si(S.g[i][j] * x, expo + 1)]
  IN  [S1 EXCEPT !.g[i][i] = S1.g[i][i] + Z_mul_2si((S1.g[j][j] * x) * x, 2 * expo)]

row_addmul_2exp(S, i, j, x, expo) ==
  LET S1 == basisAddMul(S, i, j, Z_mul_2si(x, expo))
  IN  IF enableIntGram
        THEN gramRowLoop(row_addmul_2exp_diag(S1, i, j, x, expo),
                         i, j, Z_mul_2si(x, expo), 0)
        ELSE S1

\* FP_NR::get_si_exp_we and get_z_exp_we
LONG_MAX == Pow2(LongBits) - 1

\* trunc(x) for a finite x: the integer part, towards zero
F_trunc(x) == Sgn(x[1]) * (Abs(x[1]) \div x[2])

\* the minimum non-negative expo such that |v| / 2^expo <= LONG_MAX
RECURSIVE siExpo(_, _)
siExpo(v, e) == IF Abs(v) \div Pow2(e) <= LONG_MAX THEN e ELSE siExpo(v, e + 1)

\* x and expo with trunc(value * 2^expoAdd) ~= x * 2^expo
get_si_exp_we(x, expoAdd) ==
  LET v == F_trunc(F_mul_2si(x, expoAdd))
      e == siExpo(v, 0)
  IN  [lx |-> Sgn(v) * (Abs(v) \div Pow2(e)), expo |-> e]

\* a and expo with trunc(value) * 2^expoAdd = a * 2^expo: the back-end
\* reports the exponent zexpo when 2^zexpo divides the value, and 0 otherwise
get_z_exp_we(x, expoAdd, zexpo) ==
  LET v == F_trunc(x) * Pow2(expoAdd)
      e == IF zexpo >= 0 /\ v % Pow2(zexpo) = 0 THEN zexpo ELSE 0
  IN  [a |-> Sgn(v) * (Abs(v) \div Pow2(e)), expo |-> e]

row_addmul_we(S, i, j, x, expoAdd, zexpo) ==
  LET lx   == get_si_exp_we(x, expoAdd).lx
      expo == get_si_exp_we(x, expoAdd).expo
  IN  IF expo = 0
        THEN IF lx = 1 THEN row_add(S, i, j)
             ELSE IF lx = -1 THEN row_sub(S, i, j)
             ELSE IF lx # 0 THEN row_addmul_si(S, i, j, lx)
             ELSE S
      ELSE IF rowOpForceLong
        THEN row_addmul_si_2exp(S, i, j, lx, expo)
      ELSE LET ztmp2 == get_z_exp_we(x, expoAdd, zexpo)
           IN  row_addmul_2exp(S, i, j, ztmp2.a, ztmp2.expo)

\* The four groups of swaps of rowSwap on g (i < j)
rowSwapGram(S, i, j) ==
  [S EXCEPT !.g = [a \in DOMAIN S.g |-> [c \in DOMAIN S.g |->
     IF c < i /\ a = i THEN S.g[j][c]
     ELSE IF c < i /\ a = j THEN S.g[i][c]
     ELSE IF i < a /\ a < j /\ c = i THEN S.g[j][a]
     ELSE IF a = j /\ i < c /\ c < j THEN S.g[c][i]
     ELSE IF j < a /\ a < S.nKnownRows /\ c = i THEN S.g[a][j]
     ELSE IF j < a /\ a < S.nKnownRows /\ c = j THEN S.g[a][i]
     ELSE IF a = i /\ c = i THEN S.g[j][j]
     ELSE IF a = j /\ c = j THEN S.g[i][i]
     ELSE S.g[a][c]]]]

rowSwap(S, i, j) ==
  LET S1 == [S EXCEPT !.b = swapRows(S.b, i, j)]
      S2 == IF enableTransform THEN [S1 EXCEPT !.u = swapRows(S1.u, i, j)] ELSE S1
  IN  IF enableIntGram THEN rowSwapGram(S2, i, j) ELSE S2

\* ------------------------------------------------------------- rowOpEnd
\* rowOpEnd leaving the column i of gf as it is
invalidateGramColSkip(S, i) == S

\* for (j = from; j < nKnownRows; j++) gf(j, i).set_nan()
invalidateGramCol(S, i) ==
  [S EXCEPT !.gf = [a \in DOMAIN S.gf |-> [c \in DOMAIN S.gf |->
     IF c = i /\ a > i /\ a < S.nKnownRows THEN NaN ELSE S.gf[a][c]]]]

rowOpEndRow(S, i) ==
  LET S1 == IF ~enableIntGram
              THEN invalidateGramCol(invalidateGramRow(updateBF(S, i), i), i)
              ELSE S
  IN  invalidateGSORow(S1, i, 0)

RECURSIVE rowOpEndFirstLoop(_, _, _)
rowOpEndFirstLoop(S, i, lastR) ==
  IF i >= lastR THEN S ELSE rowOpEndFirstLoop(rowOpEndRow(S, i), i + 1, lastR)

\* The second loop of rowOpEnd invalidating the rows after the bracket wholly
RECURSIVE rowOpEndSecondLoopZero(_, _, _)
rowOpEndSecondLoopZero(S, i, firstR) ==
  IF i >= S.nKnownRows THEN S
  ELSE rowOpEndSecondLoopZero(invalidateGSORow(S, i, 0), i + 1, firstR)

RECURSIVE rowOpEndSecondLoop(_, _, _)
rowOpEndSecondLoop(S, i, firstR) ==
  IF i >= S.nKnownRows THEN S
  ELSE rowOpEndSecondLoop(invalidateGSORow(S, i, firstR), i + 1, firstR)

rowOpEnd(S, firstR, lastR) ==
  rowOpEndSecondLoop(rowOpEndFirstLoop(S, firstR, lastR), lastR, firstR)

\* -------------------------------------------------------------- moveRow
RECURSIVE invalidateFrom(_, _, _)
invalidateFrom(S, i, newValidCols) ==
  IF i >= S.nKnownRows THEN S
  ELSE invalidateFrom(invalidateGSORow(S, i, newValidCols), i + 1, newValidCols)

\* newR < oldR: the rotations of the row-indexed tables
moveRowRightTables(S, oldR, newR) ==
  [S EXCEPT !.gsoValidCols = rotateRight(S.gsoValidCols, newR, oldR),
            !.mu = rotateRight(S.mu, newR, oldR),
            !.r = rotateRight(S.r, newR, oldR),
            !.b = rotateRight(S.b, newR, oldR)]

\* moveRow to the left that forgets to rotate u and uInvT
moveRowRightTransformSkip(S, oldR, newR) == S

moveRowRightTransform(S, oldR, newR) ==
  IF enableTransform
    THEN [S EXCEPT !.u = rotateRight(S.u, newR, oldR),
                   !.uInvT = IF enableInvTransform
                               THEN rotateRight(S.uInvT, newR, oldR)
                               ELSE S.uInvT]
    ELSE S

moveRowRightGram(S, oldR, newR) ==
  IF enableIntGram
    THEN [S EXCEPT !.g = rotateGramRight(S.g, newR, oldR, S.nKnownRows)]
    ELSE [S EXCEPT !.gf = rotateGramRight(S.gf, newR, oldR, S.nKnownRows),
                   !.bf = rotateRight(S.bf, newR, oldR)]

moveRowRightExpo(S, oldR, newR) ==
  IF enableRowExpo
    THEN [S EXCEPT !.rowExpo = rotateRight(S.rowExpo, newR, oldR)]
    ELSE S

\* moveRow to the right that leaves the rows of mu where they are
moveRowLeftTablesKeepMu(S, oldR, newR) ==
  [S EXCEPT !.gsoValidCols = rotateLeft(S.gsoValidCols, oldR, newR),
            !.r = rotateLeft(S.r, oldR, newR),
            !.b = rotateLeft(S.b, oldR, newR)]

\* newR > oldR: the rotations of the row-indexed tables
moveRowLeftTables(S, oldR, newR) ==
  [S EXCEPT !.gsoValidCols = rotateLeft(S.gsoValidCols, oldR, newR),
            !.mu = rotateLeft(S.mu, oldR, newR),
            !.r = rotateLeft(S.r, oldR, newR),
            !.b = rotateLeft(S.b, oldR, newR)]

\* moveRow to a later index leaving u and uInvT in place
moveRowLeftTransformSkip(S, oldR, newR) == S

moveRowLeftTransform(S, oldR, newR) ==
  IF enableTransform
    THEN [S EXCEPT !.u = rotateLeft(S.u, oldR, newR),
                   !.uInvT = IF enableInvTransform
                               THEN rotateLeft(S.uInvT, oldR, newR)
                               ELSE S.uInvT]
    ELSE S

moveRowLeftGram(S, oldR, newR) ==
  IF enableIntGram
    THEN IF oldR < S.nKnownRows - 1
           THEN [S EXCEPT !.g = rotateGramLeft(S.g, oldR,
                                   Min(newR, S.nKnownRows - 1), S.nKnownRows)]
           ELSE S
    ELSE LET S1 == IF oldR < S.nKnownRows - 1
                     THEN [S EXCEPT !.gf = rotateGramLeft(S.gf, oldR,
                                   Min(newR, S.nKnownRows - 1), S.nKnownRows)]
                     ELSE S
         IN  [S1 EXCEPT !.bf = rotateLeft(S1.bf, oldR, newR)]

moveRowLeftExpo(S, oldR, newR) ==
  IF enableRowExpo
    THEN [S EXCEPT !.rowExpo = rotateLeft(S.rowExpo, oldR, newR)]
    ELSE S

\* The retraction of moveRow cutting nKnownRows back to oldR
moveRowForgetToOld(S, oldR, newR) ==
  IF oldR < S.nKnownRows
    THEN [S EXCEPT !.nKnownRows = oldR,
                   !.nSourceRows = oldR,
                   !.initRowSize[newR] = Max(sizeNZ(S.b[newR]), 1)]
    ELSE S

\* if (oldR < nKnownRows) { nKnownRows--; nSourceRows = nKnownRows; ... }
moveRowForget(S, oldR, newR) ==
  IF oldR < S.nKnownRows
    THEN [S EXCEPT !.nKnownRows = S.nKnownRows - 1,
                   !.nSourceRows = S.nKnownRows - 1,
                   !.initRowSize[newR] = Max(sizeNZ(S.b[newR]), 1)]
    ELSE S

moveRowRetract(S, oldR, newR) ==
  IF newR >= S.nKnownRows
    THEN moveRowForget(
           [S EXCEPT !.initRowSize = rotateLeft(S.initRowSize, oldR, newR)],
           oldR, newR)
    ELSE S

moveRow(S, oldR, newR) ==
  IF newR < oldR
    THEN moveRowRightExpo(moveRowRightGram(moveRowRightTransform(
           moveRowRightTables(invalidateFrom(S, newR, newR), oldR, newR),
           oldR, newR), oldR, newR), oldR, newR)
  ELSE IF newR > oldR
    THEN moveRowRetract(moveRowLeftExpo(moveRowLeftGram(moveRowLeftTransform(
           moveRowLeftTables(invalidateFrom(S, oldR, oldR), oldR, newR),
           oldR, newR), oldR, newR), oldR, newR), oldR, newR)
  ELSE S

\* ------------------------------------------------- lockCols, unlockCols
lockCols(S) == [S EXCEPT !.colsLocked = TRUE]

\* unlockCols forgetting every known row
unlockColsZero(S) == [S EXCEPT !.nKnownRows = 0, !.colsLocked = FALSE]

\* unlockCols that only releases the lock
unlockColsKeep(S) == [S EXCEPT !.colsLocked = FALSE]

unlockCols(S) == [S EXCEPT !.nKnownRows = S.nSourceRows, !.colsLocked = FALSE]

\* -------------------------------------------------------- construction
\* sizeIncreased() for the rows oldD .. d-1 of a fresh engine
sizeIncreasedRow(S, i) ==
  LET S1 == [S EXCEPT !.initRowSize[i] = Max(sizeNZ(S.b[i]), 1)]
  IN  IF ~enableIntGram
        THEN updateBF([S1 EXCEPT !.bf[i] = [j \in Cols |-> set_z(0)]], i)
        ELSE S1

RECURSIVE sizeIncreasedLoop(_, _)
sizeIncreasedLoop(S, i) ==
  IF i >= NumRows THEN S ELSE sizeIncreasedLoop(sizeIncreasedRow(S, i), i + 1)

\* sizeIncreased() for the rows i .. d-1 of an engine grown to d rows
RECURSIVE sizeIncreasedRows(_, _, _)
sizeIncreasedRows(S, i, d) ==
  IF i >= d THEN S ELSE sizeIncreasedRows(sizeIncreasedRow(S, i), i + 1, d)

\* d, the number of rows of b
dimOf(S) == Cardinality(DOMAIN S.b)

\* allocDim, the number of rows the tables are allocated for: mu is resized
\* only together with the assignment allocDim = d
allocDimOf(S) == Cardinality(DOMAIN S.mu)

\* sizeIncreased(): the tables are grown when d exceeds allocDim (integers
\* zero, floating values NaN in the new places), and the rows from
\* mu.getRows() on are initialised
sizeIncreased(S) ==
  LET d    == dimOf(S)
      oldD == Cardinality(DOMAIN S.mu)
      E    == 0 .. (d - 1)
      grow(M, fill) == [i \in E |-> [j \in E |->
                          IF i \in DOMAIN M /\ j \in DOMAIN M[i]
                            THEN M[i][j] ELSE fill]]
      rows(M, fill) == [i \in E |->
                          IF i \in DOMAIN M THEN M[i] ELSE [j \in Cols |-> fill]]
      vect(v, fill) == [i \in E |-> IF i \in DOMAIN v THEN v[i] ELSE fill]
      S1 == IF d > allocDimOf(S)
              THEN [S EXCEPT
                      !.g  = IF enableIntGram THEN grow(S.g, 0) ELSE S.g,
                      !.bf = IF enableIntGram THEN S.bf ELSE rows(S.bf, NaN),
                      !.gf = IF enableIntGram THEN S.gf ELSE grow(S.gf, NaN),
                      !.mu = grow(S.mu, NaN), !.r = grow(S.r, NaN),
                      !.gsoValidCols = vect(S.gsoValidCols, 0),
                      !.initRowSize = vect(S.initRowSize, 0),
                      !.rowExpo = IF enableRowExpo
                                    THEN vect(S.rowExpo, 0) ELSE S.rowExpo]
              ELSE S
  IN  sizeIncreasedRows(S1, oldD, d)

\* ------------------------------------------------------- applyTransform
\* createRows(n): n zero rows appended to b and to the transforms, then
\* sizeIncreased()
createRows(S, n) ==
  LET d == dimOf(S)
      E == 0 .. (d + n - 1)
      rows(M, width) == [i \in E |->
                           IF i < d THEN M[i] ELSE [j \in width |-> 0]]
  IN  sizeIncreased([S EXCEPT !.b = rows(S.b, Cols),
                              !.u = rows(S.u, Rows),
                              !.uInvT = rows(S.uInvT, Rows)])

\* removeLastRows(n): d shrinks by n, the rows of b and of the transforms
\* from d - n on are dropped, the tables keep their allocation
removeLastRows(S, n) ==
  LET E == 0 .. (dimOf(S) - n - 1)
      rows(M) == [i \in E |-> M[i]]
  IN  [S EXCEPT !.b = rows(S.b), !.u = rows(S.u), !.uInvT = rows(S.uInvT)]

\* A transform is a sequence of rows, each a sequence of integer-valued
\* floating entries: transform(i, j) is T[i + 1][j + 1]
\* for (i) for (j) row_addmul(oldD + i, srcBase + j, transform(i, j)),
\* row_addmul(i, j, x) being row_addmul_we(i, j, x, 0)
RECURSIVE applyTransformCombine(_, _, _, _, _, _)
applyTransformCombine(S, T, srcBase, oldD, i, j) ==
  IF i >= Len(T) THEN S
  ELSE IF j >= Len(T[1])
    THEN applyTransformCombine(S, T, srcBase, oldD, i + 1, 0)
  ELSE applyTransformCombine(
         row_addmul_we(S, oldD + i, srcBase + j, set_z(T[i + 1][j + 1]), 0, 0),
         T, srcBase, oldD, i, j + 1)

\* applyTransform leaving the scratch rows where they are
applyTransformSwapsSkip(S, targetBase, oldD, i, n) == S

\* for (i) rowSwap(targetBase + i, oldD + i)
RECURSIVE applyTransformSwaps(_, _, _, _, _)
applyTransformSwaps(S, targetBase, oldD, i, n) ==
  IF i >= n THEN S
  ELSE applyTransformSwaps(rowSwap(S, targetBase + i, oldD + i),
                           targetBase, oldD, i + 1, n)

applyTransform(S, T, srcBase, targetBase) ==
  LET targetSize == Len(T)
      oldD == dimOf(S)
      S1 == createRows(S, targetSize)
      S2 == applyTransformCombine(S1, T, srcBase, oldD, 0, 0)
      S3 == applyTransformSwaps(S2, targetBase, oldD, 0, targetSize)
      S4 == rowOpEnd(S3, targetBase, targetBase + targetSize)
  IN  removeLastRows(S4, targetSize)

\* ------------------------------------------------------ derived metrics
\* get_log_det(start_row, end_row): the rows i whose r(i, i) enters the sum
\* of logarithms
get_log_det(S, start_row, end_row) ==
  { i \in DOMAIN S.b : Max(0, start_row) <= i /\ i < Min(dimOf(S), end_row) }

\* The coefficient of log r(row, row) after the blocks i .. p-1 of
\* get_slide_potential: potential += (p - i) * get_log_det(i * block_size,
\* (i + 1) * block_size)
RECURSIVE slidePotentialLoop(_, _, _, _, _)
slidePotentialLoop(S, block_size, p, i, row) ==
  IF i >= p THEN 0
  ELSE (IF row \in get_log_det(S, i * block_size, (i + 1) * block_size)
          THEN p - i ELSE 0)
       + slidePotentialLoop(S, block_size, p, i + 1, row)

\* get_slide_potential as the coefficient it gives to each log r(row, row)
get_slide_potential(S, start_row, end_row, block_size) ==
  LET p0 == (end_row - start_row) \div block_size
      p  == IF (end_row - start_row) % block_size = 0 THEN p0 - 1 ELSE p0
  IN  [row \in DOMAIN S.b |-> slidePotentialLoop(S, block_size, p, 0, row)]

\* The bases engines are built on
\* [[3,1,0],[1,3,0],[0,0,1]]: independent rows, mu(1,0) = 3/5
BasisQ   == [i \in Rows |-> [j \in Cols |->
              IF i = j THEN (IF i <= 1 THEN 3 ELSE 1)
              ELSE IF i + j = 1 THEN 1 ELSE 0]]
\* [[1,0,0],[1,0,0],[0,1,1]]: rows 0 and 1 are equal, so r(1,1) = 0
BasisDep == [i \in Rows |-> [j \in Cols |->
              IF i <= 1 THEN (IF j = 0 THEN 1 ELSE 0)
              ELSE (IF j >= 1 /\ j <= i THEN 1 ELSE 0)]]
InitBases == { BasisQ, BasisDep }
\* [[2,0,0],[4,1,0],[0,0,1]]
BasisWe  == [i \in Rows |-> [j \in Cols |->
              IF i = j THEN (IF i = 0 THEN 2 ELSE 1)
              ELSE IF i = 1 /\ j = 0 THEN 4 ELSE 0]]
\* [[2^MantBits, 2^MantBits, 0], [2^MantBits + 1, 1, 0], [0, 0, 0]]: a row of
\* equal powers of two, a row with an entry of MantBits + 1 significant
\* bits, a zero row
BasisExpo == [i \in Rows |-> [j \in Cols |->
               IF i = 0 /\ j <= 1 THEN Pow2(MantBits)
               ELSE IF i = 1 /\ j = 0 THEN Pow2(MantBits) + 1
               ELSE IF i = 1 /\ j = 1 THEN 1 ELSE 0]]

\* << enableIntGram, enableRowExpo, enableTransform, enableInvTransform,
\*    rowOpForceLong >>
Configs ==
  { << TRUE,  FALSE, TRUE,  TRUE,  FALSE >>,
    << TRUE,  FALSE, FALSE, FALSE, TRUE  >>,
    << FALSE, TRUE,  TRUE,  FALSE, FALSE >>,
    << FALSE, FALSE, TRUE,  TRUE,  TRUE  >> }

Fresh(basis) ==
  [ b |-> basis,
    u |-> IF enableTransform THEN IdMat ELSE ZeroMat,
    uInvT |-> IF enableTransform /\ enableInvTransform THEN IdMat ELSE ZeroMat,
    g |-> ZeroMat, gf |-> NaNMat,
    bf |-> [i \in Rows |-> [j \in Cols |-> set_z(0)]],
    rowExpo |-> [i \in Rows |-> 0],
    mu |-> NaNMat, r |-> NaNMat,
    gsoValidCols |-> [i \in Rows |-> 0],
    initRowSize |-> [i \in Rows |-> 0],
    nKnownRows |-> 0, nSourceRows |-> 0, nKnownCols |-> 0,
    colsLocked |-> FALSE ]

\* The engine after construction on one of the given bases
InitOn(bases) ==
  /\ \E c \in Configs :
       /\ enableIntGram = c[1] /\ enableRowExpo = c[2]
       /\ enableTransform = c[3] /\ enableInvTransform = c[4]
       /\ rowOpForceLong = c[5]
  /\ \E basis \in bases :
       LET S == sizeIncreasedLoop(Fresh(basis), 0)
       IN  /\ b = S.b /\ u = S.u /\ uInvT = S.uInvT /\ g = S.g /\ gf = S.gf
           /\ bf = S.bf /\ rowExpo = S.rowExpo /\ mu = S.mu /\ r = S.r
           /\ gsoValidCols = S.gsoValidCols /\ initRowSize = S.initRowSize
           /\ nKnownRows = S.nKnownRows /\ nSourceRows = S.nSourceRows
           /\ nKnownCols = S.nKnownCols /\ colsLocked = S.colsLocked
  /\ rowOpFirst = -1 /\ rowOpLast = -1
  /\ nOps = 0
  /\ call = [op |-> "MatGSO", i |-> 0, j |-> 0, ok |-> TRUE]

Init == InitOn(InitBases)

\* -------------------------------------------------------------- actions
NoFlagChange ==
  UNCHANGED << enableIntGram, enableRowExpo, enableTransform, enableInvTransform,
               rowOpForceLong >>

inBracket == rowOpFirst # -1

\* The columns the call updateGSORow(i, lastJ) processes
gsoProcessed(S, i, lastJ) ==
  LET S1 == updateGSORowDiscover(S, i)
      R  == updateGSORow(S, i, lastJ)
  IN  { j \in Rows : /\ j >= gsoStart(S1, i)
                     /\ j <= Min(R.stop, lastJ) }

\* The FPLLL_DEBUG_CHECKs of discoverRow and of updateGSORow on its arguments
updateGSORowArgChecks(S, i, lastJ) ==
  LET S1 == updateGSORowDiscover(S, i)
  IN  /\ i >= S.nKnownRows => (S.nKnownRows < NumRows /\ ~(S.colsLocked /\ enableIntGram))
      /\ i >= 0 /\ i < S1.nKnownRows
      /\ lastJ >= 0 /\ lastJ < S1.nSourceRows

\* The FPLLL_DEBUG_CHECKs of discoverRow and updateGSORow
updateGSORowChecks(S, i, lastJ) ==
  LET S1 == updateGSORowDiscover(S, i)
  IN  /\ updateGSORowArgChecks(S, i, lastJ)
      /\ \A j \in gsoProcessed(S, i, lastJ) : j = i \/ S1.gsoValidCols[j] >= j

\* A driver's query of row i up to column lastJ of the triangular tables
\* (lastJ <= i), made outside a bracket
UpdateGSORow ==
  \E i \in Rows, lastJ \in Rows :
    /\ ~inBracket
    /\ lastJ <= i
    /\ updateGSORowChecks(Cur, i, lastJ)
    /\ LET R == updateGSORow(Cur, i, lastJ)
       IN  /\ Commit(R.st)
           /\ call' = [op |-> "updateGSORow", i |-> i, j |-> lastJ, ok |-> R.ok]
    /\ UNCHANGED << rowOpFirst, rowOpLast, nOps >>
    /\ NoFlagChange

RowOpBegin ==
  \E firstR \in Rows, lastR \in 1 .. NumRows :
    /\ ~inBracket
    /\ firstR < lastR /\ lastR <= nKnownRows
    /\ nOps < MaxOps
    /\ rowOpFirst' = firstR /\ rowOpLast' = lastR
    /\ call' = [op |-> "rowOpBegin", i |-> firstR, j |-> lastR, ok |-> TRUE]
    /\ Commit(Cur)
    /\ UNCHANGED nOps
    /\ NoFlagChange

\* A bracket is closed once a mutator has run in it
RowOpEnd ==
  /\ inBracket /\ call.op # "rowOpBegin"
  /\ Commit(rowOpEnd(Cur, rowOpFirst, rowOpLast))
  /\ rowOpFirst' = -1 /\ rowOpLast' = -1
  /\ call' = [op |-> "rowOpEnd", i |-> rowOpFirst, j |-> rowOpLast, ok |-> TRUE]
  /\ UNCHANGED nOps
  /\ NoFlagChange

\* A mutator of row i by row j inside the open bracket
canMutate(i, j) ==
  /\ inBracket /\ nOps < MaxOps
  /\ i # j
  /\ rowOpFirst <= i /\ i < rowOpLast
  /\ i < nKnownRows /\ j < nSourceRows

Mutated(S, name, i, j) ==
  /\ Commit(S)
  /\ call' = [op |-> name, i |-> i, j |-> j, ok |-> TRUE]
  /\ nOps' = nOps + 1
  /\ UNCHANGED << rowOpFirst, rowOpLast >>
  /\ NoFlagChange

RowAdd ==
  \E i \in Rows, j \in Rows :
    canMutate(i, j) /\ Mutated(row_add(Cur, i, j), "row_add", i, j)

RowSub ==
  \E i \in Rows, j \in Rows :
    canMutate(i, j) /\ Mutated(row_sub(Cur, i, j), "row_sub", i, j)

RowAddmulSi ==
  \E i \in Rows, j \in Rows, x \in {-2, 2} :
    canMutate(i, j) /\ Mutated(row_addmul_si(Cur, i, j, x), "row_addmul_si", i, j)

RowAddmulSi2exp ==
  \E i \in Rows, j \in Rows, x \in {-1} :
    canMutate(i, j)
    /\ Mutated(row_addmul_si_2exp(Cur, i, j, x, 1), "row_addmul_si_2exp", i, j)

RowAddmul2exp ==
  \E i \in Rows, j \in Rows, x \in {1} :
    canMutate(i, j)
    /\ Mutated(row_addmul_2exp(Cur, i, j, x, 1), "row_addmul_2exp", i, j)

RowSwap ==
  \E i \in Rows, j \in Rows :
    /\ inBracket /\ nOps < MaxOps
    /\ ~enableInvTransform
    /\ i < j /\ rowOpFirst <= i /\ j < rowOpLast
    /\ Mutated(rowSwap(Cur, i, j), "rowSwap", i, j)

\* The FPLLL_DEBUG_CHECKs of moveRow
moveRowChecks(S, oldR, newR) ==
  /\ ~S.colsLocked
  /\ newR < oldR => oldR < S.nKnownRows

MoveRow ==
  \E oldR \in DOMAIN b, newR \in DOMAIN b :
    /\ ~inBracket /\ nOps < MaxOps
    /\ oldR # newR
    /\ moveRowChecks(Cur, oldR, newR)
    /\ Mutated(moveRow(Cur, oldR, newR), "moveRow", oldR, newR)

Next ==
  \/ UpdateGSORow
  \/ RowOpBegin
  \/ RowOpEnd
  \/ RowAdd
  \/ RowSub
  \/ RowAddmulSi
  \/ RowAddmulSi2exp
  \/ RowAddmul2exp
  \/ RowSwap
  \/ MoveRow

Spec == Init /\ [][Next]_vars

\* A build without FPLLL_DEBUG_CHECK (no DEBUG): updateGSORow is not guarded
\* by its checks, only by the bounds of the tables.
UpdateGSORowRelease ==
  \E i \in Rows, lastJ \in Rows :
    /\ ~inBracket
    /\ lastJ <= i
    /\ i >= nKnownRows => nKnownRows < NumRows
    /\ LET R == updateGSORow(Cur, i, lastJ)
       IN  /\ Commit(R.st)
           /\ call' = [op |-> "updateGSORow", i |-> i, j |-> lastJ, ok |-> R.ok]
    /\ UNCHANGED << rowOpFirst, rowOpLast, nOps >>
    /\ NoFlagChange

\* The same build called by a driver that keeps to the preconditions on
\* the arguments: only the check on the columns (gso.cpp:153) is missing
UpdateGSORowArgsChecked ==
  \E i \in Rows, lastJ \in Rows :
    /\ ~inBracket
    /\ lastJ <= i
    /\ updateGSORowArgChecks(Cur, i, lastJ)
    /\ LET R == updateGSORow(Cur, i, lastJ)
       IN  /\ Commit(R.st)
           /\ call' = [op |-> "updateGSORow", i |-> i, j |-> lastJ, ok |-> R.ok]
    /\ UNCHANGED << rowOpFirst, rowOpLast, nOps >>
    /\ NoFlagChange

NextArgsChecked ==
  \/ UpdateGSORowArgsChecked
  \/ MoveRow

SpecArgsChecked == Init /\ [][NextArgsChecked]_vars

NextRelease ==
  \/ UpdateGSORowRelease
  \/ MoveRow

SpecRelease == Init /\ [][NextRelease]_vars

\* A driver's query of row i up to any column lastJ that the checks of
\* updateGSORow allow (lastJ < nSourceRows), made outside a bracket
UpdateGSORowAny ==
  \E i \in Rows, lastJ \in Rows :
    /\ ~inBracket
    /\ updateGSORowChecks(Cur, i, lastJ)
    /\ LET R == updateGSORow(Cur, i, lastJ)
       IN  /\ Commit(R.st)
           /\ call' = [op |-> "updateGSORow", i |-> i, j |-> lastJ, ok |-> R.ok]
    /\ UNCHANGED << rowOpFirst, rowOpLast, nOps >>
    /\ NoFlagChange

\* lockCols() and unlockCols(), called by a driver outside a bracket; a
\* lock counts among the MaxOps mutators of a run
LockCols ==
  /\ ~inBracket /\ nOps < MaxOps
  /\ Commit(lockCols(Cur))
  /\ call' = [op |-> "lockCols", i |-> 0, j |-> 0, ok |-> TRUE]
  /\ nOps' = nOps + 1
  /\ UNCHANGED << rowOpFirst, rowOpLast >>
  /\ NoFlagChange

UnlockCols ==
  /\ ~inBracket
  /\ Commit(unlockCols(Cur))
  /\ call' = [op |-> "unlockCols", i |-> 0, j |-> 0, ok |-> TRUE]
  /\ UNCHANGED << rowOpFirst, rowOpLast, nOps >>
  /\ NoFlagChange

NextLock ==
  \/ UpdateGSORow
  \/ LockCols
  \/ UnlockCols
  \/ RowOpBegin
  \/ RowOpEnd
  \/ RowAdd
  \/ RowSub
  \/ RowAddmulSi
  \/ RowAddmulSi2exp
  \/ RowAddmul2exp
  \/ RowSwap
  \/ MoveRow

SpecLock == Init /\ [][NextLock]_vars

NextWide ==
  \/ UpdateGSORowAny
  \/ MoveRow

SpecWide == InitOn({ BasisQ }) /\ [][NextWide]_vars

\* rowSwap as a build answers it: with DEBUG the check !enableInvTransform
\* stops the call before anything is written, without DEBUG the check is not
\* compiled and the swap is made
RowSwapUnchecked ==
  \E i \in Rows, j \in Rows, debug \in BOOLEAN :
    /\ inBracket /\ nOps < MaxOps
    /\ i < j /\ rowOpFirst <= i /\ j < rowOpLast
    /\ IF debug /\ enableInvTransform
         THEN /\ Commit(Cur)
              /\ call' = [op |-> "rowSwap", i |-> i, j |-> j, ok |-> FALSE]
         ELSE /\ Commit(rowSwap(Cur, i, j))
              /\ call' = [op |-> "rowSwap", i |-> i, j |-> j, ok |-> TRUE]
    /\ nOps' = nOps + 1
    /\ UNCHANGED << rowOpFirst, rowOpLast >>
    /\ NoFlagChange

NextSwap ==
  \/ UpdateGSORow
  \/ RowOpBegin
  \/ RowOpEnd
  \/ RowSwapUnchecked

SpecSwap == Init /\ [][NextSwap]_vars

\* The transforms a driver applies: a sum of two rows, an exchange of two
\* rows, the double of a row
Transforms ==
  { << << 1, 1 >> >>, << << 0, 1 >>, << 1, 0 >> >>, << << 2 >> >> }

\* The rows applyTransform reads and writes exist, and rowSwap is allowed
canApplyTransform(T, srcBase, targetBase) ==
  /\ ~inBracket /\ nOps < MaxOps
  /\ ~enableInvTransform
  /\ srcBase + Len(T[1]) <= NumRows /\ targetBase + Len(T) <= NumRows

ApplyTransform ==
  \E T \in Transforms, srcBase \in Rows, targetBase \in Rows :
    /\ canApplyTransform(T, srcBase, targetBase)
    /\ Mutated(applyTransform(Cur, T, srcBase, targetBase),
               "applyTransform", srcBase, targetBase)

NextTransform ==
  \/ UpdateGSORow
  \/ ApplyTransform

SpecTransform == Init /\ [][NextTransform]_vars

\* The floating multipliers a driver passes to row_addmul_we: small ones,
\* and one beyond LONG_MAX
WeValues == { -2, -1, 0, 1, LONG_MAX + 1 }

\* The generic entry point of the row operations, inside the open bracket
RowAddmulWe ==
  \E i \in Rows, j \in Rows, x \in WeValues, zexpo \in 0 .. 1 :
    /\ canMutate(i, j)
    /\ Mutated(row_addmul_we(Cur, i, j, set_z(x), 0, zexpo), "row_addmul_we", i, j)

NextWe ==
  \/ UpdateGSORow
  \/ RowOpBegin
  \/ RowOpEnd
  \/ RowAddmulWe

SpecWe == InitOn({ BasisWe }) /\ [][NextWe]_vars

\* A row is created after the rows of construction, one at a time
CreateRows ==
  /\ ~inBracket
  /\ dimOf(Cur) = NumRows
  /\ Commit(createRows(Cur, 1))
  /\ call' = [op |-> "createRows", i |-> dimOf(Cur), j |-> 1, ok |-> TRUE]
  /\ UNCHANGED << rowOpFirst, rowOpLast, nOps >>
  /\ NoFlagChange

\* The created row is removed again, once it holds a row the engine does not
\* count as known
RemoveLastRows ==
  /\ ~inBracket
  /\ dimOf(Cur) > NumRows /\ nKnownRows < dimOf(Cur)
  /\ Commit(removeLastRows(Cur, 1))
  /\ call' = [op |-> "removeLastRows", i |-> dimOf(Cur) - 1, j |-> 1, ok |-> TRUE]
  /\ UNCHANGED << rowOpFirst, rowOpLast, nOps >>
  /\ NoFlagChange

NextGrow ==
  \/ UpdateGSORow
  \/ CreateRows
  \/ RemoveLastRows
  \/ MoveRow

SpecGrow == Init /\ [][NextGrow]_vars

\* The slide potential of the rows start_row .. end_row - 1 is asked for
GetSlidePotential ==
  \E start_row \in Rows, end_row \in 1 .. NumRows, block_size \in 1 .. NumRows :
    /\ ~inBracket
    /\ start_row < end_row
    /\ call' = [op |-> "get_slide_potential", i |-> start_row, j |-> end_row,
                ok |-> TRUE, block_size |-> block_size,
                potential |->
                  get_slide_potential(Cur, start_row, end_row, block_size)]
    /\ Commit(Cur)
    /\ UNCHANGED << rowOpFirst, rowOpLast, nOps >>
    /\ NoFlagChange

NextPotential ==
  \/ UpdateGSORow
  \/ GetSlidePotential

SpecPotential == Init /\ [][NextPotential]_vars

NextExpo ==
  \/ UpdateGSORow
  \/ RowOpBegin
  \/ RowOpEnd
  \/ RowAdd
  \/ RowSub

SpecExpo == InitOn({ BasisExpo, BasisQ }) /\ [][NextExpo]_vars

\* ----------------------------------------------------------- properties
\* The Gram entry of rows i and j of the current basis as the engine counts
\* it: the exact inner product with enableIntGram, otherwise the inner
\* product of the floating rows bf
gramOfBasis(i, j) ==
  IF enableIntGram THEN set_z(dotZ(b[i], b[j], NumCols))
  ELSE dotF(bf[i], bf[j], NumCols)

\* The Gram-Schmidt coefficients of the current basis, by the recurrence of
\* updateGSORow over gramOfBasis
RECURSIVE gsoSumOfBasis(_, _, _)
RECURSIVE gsoROfBasis(_, _)
RECURSIVE gsoMuOfBasis(_, _)
gsoSumOfBasis(i, j, k) ==
  IF k <= 0 THEN gramOfBasis(i, j)
  ELSE F_sub(gsoSumOfBasis(i, j, k - 1),
             F_mul(gsoMuOfBasis(j, k - 1), gsoROfBasis(i, k - 1)))
gsoROfBasis(i, j) == gsoSumOfBasis(i, j, j)
gsoMuOfBasis(i, j) == F_div(gsoROfBasis(i, j), gsoROfBasis(j, j))

\* C1: with int_gram, once the bracket is closed, g(i, j) is the exact inner
\* product of the current rows b[i] and b[j] for all j <= i < n_known_rows.
C1_GramExact ==
  (enableIntGram /\ ~inBracket) =>
    \A i \in Rows, j \in Rows :
      (j <= i /\ i < nKnownRows) => g[i][j] = dotZ(b[i], b[j], NumCols)

\* A closed bracket whose row operation added a later row to an earlier one
\* and left a diagonal entry of g that is not the norm of the row
C1_StaleDiagonal ==
  /\ enableIntGram /\ call.op = "rowOpEnd"
  /\ \E i \in Rows : i < nKnownRows /\ g[i][i] # dotZ(b[i], b[i], NumCols)

\* C2: validity prefix: outside a bracket, for every known row i and every
\* j < gso_valid_cols[i], the stored r(i, j) and (for j < i) mu(i, j) are the
\* Gram-Schmidt coefficients of the current basis.
C2_ValidityPrefix ==
  ~inBracket =>
    \A i \in Rows, j \in Rows :
      (i < nKnownRows /\ j < gsoValidCols[i] /\ j <= i) =>
        /\ r[i][j] = gsoROfBasis(i, j)
        /\ j < i => mu[i][j] = gsoMuOfBasis(i, j)

\* A query of row i that passed the checks of updateGSORow and divided by a
\* diagonal r(j, j) that is outside the valid prefix of row j
C2_StaleDivisor ==
  /\ call.op = "updateGSORow" /\ call.ok /\ ~enableIntGram
  /\ \E j \in Rows :
       /\ j < call.i /\ j < gsoValidCols[call.i]
       /\ gsoValidCols[j] <= j
       /\ mu[call.i][j] # gsoMuOfBasis(call.i, j)

\* C3: whenever update_gso_row(i, last_j) returns success, gso_valid_cols[i]
\* is the larger of its value when the loop started (0 for a row the call
\* discovered) and last_j + 1; update_gso_row(0, 0) on a fresh engine sets
\* r(0, 0) = gram(0, 0) and gso_valid_cols[0] = 1.
C3_ValidAfterSuccess ==
  [][ (call'.op = "updateGSORow" /\ call'.ok) =>
        LET i     == call'.i
            prior == IF i >= nKnownRows THEN 0 ELSE gsoValidCols[i]
        IN  /\ gsoValidCols'[i] = Max(prior, call'.j + 1)
            /\ (i = 0 /\ call'.j = 0 /\ nKnownRows = 0) =>
                 (r'[0][0] = gramOfBasis(0, 0) /\ gsoValidCols'[0] = 1) ]_vars

\* A successful call whose last_j + 1 is below the prefix that was valid
C3_PriorKept ==
  call.op = "updateGSORow" /\ call.ok /\ gsoValidCols[call.i] > call.j + 1

\* C3 as stated: after every successful call gso_valid_cols[i] = last_j + 1
C3_ValidIsLastJPlusOne ==
  (call.op = "updateGSORow" /\ call.ok) => gsoValidCols[call.i] = call.j + 1

C5_Idempotent ==
  call.op = "updateGSORow" =>
    LET R == updateGSORow(Cur, call.i, call.j)
    IN  /\ R.ok = call.ok
        /\ R.st.mu = mu /\ R.st.r = r
        /\ R.st.g = g /\ R.st.gf = gf
        /\ R.st.gsoValidCols = gsoValidCols
        /\ R.st.nKnownRows = nKnownRows

\* A failed call on floating Gram data: the second call runs the loop again
\* from the same column
C5_SecondCallRecomputes ==
  /\ call.op = "updateGSORow" /\ ~call.ok /\ ~enableIntGram
  /\ gsoStart(Cur, call.i) <= call.j

\* C6: for i <= n_known_rows (i < d), after update_gso_row(i, last_j) row i
\* is known, n_known_rows = max(n_known_rows, i + 1), and a row the call
\* discovered has its Gram row initialised (exact g, or gf either the
\* sentinel or recomputed from bf) and its gso_valid_cols reset before its
\* entries are read, so r(i, 0) is the Gram entry of the current rows.
C6_DiscoversNextRow ==
  [][ (call'.op = "updateGSORow" /\ call'.i <= nKnownRows) =>
        LET i == call'.i
        IN  /\ nKnownRows' >= i + 1
            /\ nKnownRows' = Max(nKnownRows, i + 1)
            /\ i = nKnownRows =>
                 /\ \A j \in 0 .. i :
                      IF enableIntGram
                        THEN g'[i][j] = dotZ(b[i], b[j], NumCols)
                        ELSE \/ is_nan(gf'[i][j])
                             \/ gf'[i][j] = dotF(bf[i], bf[j], NumCols)
                 /\ gsoValidCols'[i] = (IF call'.ok THEN call'.j + 1 ELSE 0)
                 /\ r'[i][0] = gramOfBasis(i, 0) ]_vars

\* A call that discovered a row after the first one and read its Gram row
C6_RowDiscovered ==
  /\ call.op = "updateGSORow" /\ call.ok /\ call.i >= 1
  /\ nKnownRows = call.i + 1
  /\ gsoValidCols[call.i] = call.j + 1
  /\ r[call.i][0] = gramOfBasis(call.i, 0) /\ r[call.i][0] # set_z(0)

\* C6 as stated: after update_gso_row(i, last_j) for any i < d row i is
\* known and the Gram entry read for r(i, 0) was initialised
C6_AnyRowDiscovered ==
  call.op = "updateGSORow" =>
    /\ nKnownRows >= call.i + 1
    /\ r[call.i][0] = gramOfBasis(call.i, 0)

\* C7: row_op_end(first, last) sets gso_valid_cols[i] = 0 for i in
\* [first, last), gso_valid_cols[i] = min(gso_valid_cols[i], first) for i in
\* [last, n_known_rows), and leaves gso_valid_cols[i] for the other rows, b,
\* u, g, mu, r and n_known_rows unchanged.
C7_RowOpEndFrame ==
  [][ call'.op = "rowOpEnd" =>
        /\ \A i \in Rows :
             gsoValidCols'[i] =
               IF i < rowOpFirst THEN gsoValidCols[i]
               ELSE IF i < rowOpLast THEN 0
               ELSE IF i < nKnownRows THEN Min(gsoValidCols[i], rowOpFirst)
               ELSE gsoValidCols[i]
        /\ UNCHANGED << b, u, g, mu, r, nKnownRows >> ]_vars

\* A closed bracket starting after row 0 with a known row after it whose
\* prefix was cut back to the first row of the bracket
C7_DownstreamCut ==
  /\ call.op = "rowOpEnd" /\ call.i >= 1
  /\ \E i \in Rows :
       /\ call.j <= i /\ i < nKnownRows
       /\ gsoValidCols[i] = call.i /\ ~is_nan(r[i][call.i])

\* C8: move_row(old, new) with new > old and new >= n_known_rows: when
\* old < n_known_rows it lowers n_known_rows by one, sets n_source_rows to
\* it and sets init_row_size[new] = max(1, sizeNZ(b[new])); when
\* old >= n_known_rows it leaves n_known_rows and carries init_row_size
\* along; the moved row is unknown afterwards.
C8_MoveRowRetracts ==
  [][ (call'.op = "moveRow" /\ call'.j > call'.i /\ call'.j >= nKnownRows) =>
        LET old == call'.i
            new == call'.j
        IN  /\ old < nKnownRows =>
                 /\ nKnownRows' = nKnownRows - 1
                 /\ nSourceRows' = nKnownRows'
                 /\ initRowSize'[new] = Max(1, sizeNZ(b'[new]))
            /\ old >= nKnownRows =>
                 /\ nKnownRows' = nKnownRows
                 /\ initRowSize'[new] = initRowSize[old]
            /\ new >= nKnownRows'
            /\ b'[new] = b[old] ]_vars

\* A move of a known row past the known rows that left a row at or after
\* its old index known
C8_RetractedByOne ==
  /\ call.op = "moveRow" /\ call.i < call.j
  /\ call.j >= nKnownRows + 1 /\ nKnownRows > call.i
  /\ initRowSize[call.j] = Max(1, sizeNZ(b[call.j]))

\* C8 as stated: after move_row(old, new) with new > old and
\* new >= n_known_rows, n_known_rows has been retracted to old (no row at or
\* after old remains known)
C8_RetractsToOld ==
  (call.op = "moveRow" /\ call.i < call.j /\ call.j >= nKnownRows + 1) =>
    nKnownRows <= call.i

\* The rows a bracketed row operation may combine: i inside the bracket and
\* known, j another known row
pairInBracket(i, j) ==
  /\ inBracket /\ i # j
  /\ rowOpFirst <= i /\ i < rowOpLast
  /\ i < nKnownRows /\ j < nKnownRows

\* C9: row_add(i, j) followed by row_sub(i, j) leaves b, u, u_inv_t and g
\* as they were before the pair, for all known rows i # j and every
\* combination of the flags.
C9_AddSubIdentity ==
  \A i \in Rows, j \in Rows :
    pairInBracket(i, j) =>
      LET S2 == row_sub(row_add(Cur, i, j), i, j)
      IN  S2.b = b /\ S2.u = u /\ S2.uInvT = uInvT /\ S2.g = g

\* An open bracket in which row_add(i, j); row_sub(i, j) with i < j restores
\* b and leaves another g(i, i)
C9_DiagonalDrift ==
  \E i \in Rows, j \in Rows :
    /\ pairInBracket(i, j) /\ i < j /\ enableIntGram
    /\ LET S2 == row_sub(row_add(Cur, i, j), i, j)
       IN  S2.b = b /\ S2.g[i][i] # g[i][i]

\* The pairs move_row(i, j); move_row(j, i) may be called on: outside a
\* bracket, j known, and the checks of moveRow passing for both moves
pairMovable(i, j) ==
  /\ ~inBracket /\ i # j
  /\ j < nKnownRows
  /\ moveRowChecks(Cur, i, j)
  /\ moveRowChecks(moveRow(Cur, i, j), j, i)

\* C10: move_row(i, j) followed by move_row(j, i) with j < n_known_rows on
\* entry leaves b, u, u_inv_t, g, gf, bf, row_expo, init_row_size,
\* n_known_rows and n_source_rows as before the pair.
C10_MoveRowRoundTrip ==
  \A i \in Rows, j \in Rows :
    pairMovable(i, j) =>
      LET S2 == moveRow(moveRow(Cur, i, j), j, i)
      IN  /\ S2.b = b /\ S2.u = u /\ S2.uInvT = uInvT
          /\ S2.g = g /\ S2.gf = gf /\ S2.bf = bf
          /\ S2.rowExpo = rowExpo /\ S2.initRowSize = initRowSize
          /\ S2.nKnownRows = nKnownRows /\ S2.nSourceRows = nSourceRows

\* Three known rows with Gram data, where the first move changes b, the
\* Gram data and the exponents and the second one puts them back
C10_MoveChangesState ==
  \E i \in Rows, j \in Rows :
    /\ pairMovable(i, j) /\ i < j /\ j >= 2
    /\ ~enableIntGram /\ enableRowExpo /\ ~is_nan(gf[j][i])
    /\ LET S1 == moveRow(Cur, i, j)
       IN  /\ S1.b # b /\ S1.gf # gf /\ S1.rowExpo # rowExpo
           /\ moveRow(S1, j, i).b = b

\* Two engine states with the same b, u, uInvT and g
sameBasisData(S, T) == S.b = T.b /\ S.u = T.u /\ S.uInvT = T.uInvT /\ S.g = T.g

\* The multipliers and shifts the routes are compared on
RouteMults == { -2, -1, 1, 2, 3 }
RouteShifts == 0 .. 1

\* C11: every route of row_addmul_we gives the state of the generic update
\* b[i] <- b[i] + (m * 2^e) * b[j] for the decomposition (m, e) of x, and on
\* b, u, u_inv_t and g: row_add = row_addmul_si(1), row_sub =
\* row_addmul_si(-1), row_addmul_si_2exp(m, 0) = row_addmul_si(m),
\* row_addmul_2exp(m, e) = row_addmul_si_2exp(m, e); on b = [[2,0],[4,1]]
\* with g holding the Gram entries of these rows, x = -2 gives b[1] = [0,1],
\* g(1,0) = 0, g(1,1) = 1.
C11_RoutesAgree ==
  \A i \in Rows, j \in Rows :
    pairInBracket(i, j) =>
      /\ sameBasisData(row_add(Cur, i, j), row_addmul_si(Cur, i, j, 1))
      /\ sameBasisData(row_sub(Cur, i, j), row_addmul_si(Cur, i, j, -1))
      /\ \A mm \in RouteMults :
           /\ sameBasisData(row_addmul_si_2exp(Cur, i, j, mm, 0),
                            row_addmul_si(Cur, i, j, mm))
           /\ \A e \in RouteShifts :
                sameBasisData(row_addmul_2exp(Cur, i, j, mm, e),
                              row_addmul_si_2exp(Cur, i, j, mm, e))
      /\ \A x \in WeValues, zexpo \in 0 .. 1 :
           LET dec == get_si_exp_we(set_z(x), 0)
               c   == dec.lx * Pow2(dec.expo)
               R   == row_addmul_we(Cur, i, j, set_z(x), 0, zexpo)
           IN  /\ c = x
               /\ R.b = [b EXCEPT ![i] = [k \in Cols |-> b[i][k] + c * b[j][k]]]
               /\ sameBasisData(R, row_addmul_si_2exp(Cur, i, j, dec.lx, dec.expo))
      /\ (/\ enableIntGram /\ i = 1 /\ j = 0
          /\ b[0] = BasisWe[0] /\ b[1] = BasisWe[1]
          /\ g[0][0] = dotZ(b[0], b[0], NumCols)
          /\ g[1][0] = dotZ(b[1], b[0], NumCols)
          /\ g[1][1] = dotZ(b[1], b[1], NumCols)) =>
           LET R == row_addmul_we(Cur, 1, 0, set_z(-2), 0, 0)
           IN  /\ R.b[1] = [k \in Cols |-> IF k = 1 THEN 1 ELSE 0]
               /\ R.b[0] = b[0]
               /\ R.g[1][0] = 0 /\ R.g[1][1] = 1

\* row_addmul_we has run with a multiplier beyond LONG_MAX on exact Gram
\* data, through one of the two routes with a shift, and changed g(i, i)
C11_ShiftedRouteTaken ==
  /\ call.op = "row_addmul_we" /\ enableIntGram
  /\ b[call.i] = [k \in Cols |->
        BasisWe[call.i][k] + (LONG_MAX + 1) * BasisWe[call.j][k]]
  /\ b[call.i] # BasisWe[call.i]
  /\ g[call.i][call.i] # dotZ(BasisWe[call.i], BasisWe[call.i], NumCols)

\* C12: in every reachable state cols_locked implies !int_gram: lock_cols on
\* an engine built with int_gram never produces a state with both set.
C12_LockExcludesIntGram == colsLocked => ~enableIntGram

\* lockCols has returned on an engine built with the exact Gram matrix
C12_LockedIntGram ==
  call.op = "lockCols" /\ colsLocked /\ enableIntGram /\ nKnownRows >= 1

\* C13: n_known_rows increases only in the discover_row step of an
\* update_gso_row call, by exactly one; it decreases only in move_row, by
\* one, and in unlock_cols, back to n_source_rows; the bracket, the row
\* operations, row_swap and lock_cols leave it unchanged.
C13_KnownRowsSteps ==
  [][ /\ nKnownRows' > nKnownRows =>
           /\ call'.op = "updateGSORow" /\ call'.i >= nKnownRows
           /\ nKnownRows' = nKnownRows + 1
      /\ nKnownRows' < nKnownRows =>
           \/ call'.op = "moveRow" /\ nKnownRows' = nKnownRows - 1
           \/ call'.op = "unlockCols" /\ colsLocked /\ nKnownRows' = nSourceRows
      /\ call'.op \notin { "updateGSORow", "moveRow", "unlockCols" } =>
           nKnownRows' = nKnownRows ]_vars

\* unlockCols has returned and the row after the known ones holds
\* coefficients computed while it was known
C13_UnlockRetracted ==
  /\ call.op = "unlockCols" /\ nKnownRows < NumRows
  /\ ~is_nan(r[nKnownRows][0])

\* C13 as stated: n_known_rows increases only in a discover_row step, by
\* one, and decreases only in a move_row step
C13_OnlyMoveRowRetracts ==
  [][ /\ nKnownRows' > nKnownRows =>
           (call'.op = "updateGSORow" /\ nKnownRows' = nKnownRows + 1)
      /\ nKnownRows' < nKnownRows => call'.op = "moveRow" ]_vars

\* C14: while columns are locked no update_gso_row (and no discover_row in
\* it) changes n_known_cols or n_source_rows, and n_known_rows only grows;
\* n_source_rows is the value n_known_rows had when the lock was taken;
\* unlock_cols sets n_known_rows to n_source_rows and clears cols_locked.
C14_LockFreezes ==
  [][ /\ (colsLocked /\ call'.op = "updateGSORow") =>
           /\ nKnownCols' = nKnownCols /\ nSourceRows' = nSourceRows
           /\ nKnownRows' >= nKnownRows
      /\ (~colsLocked /\ call'.op = "lockCols") =>
           (colsLocked' /\ nSourceRows' = nKnownRows /\ nKnownRows' = nKnownRows)
      /\ (colsLocked /\ colsLocked') => nSourceRows' = nSourceRows
      /\ call'.op = "unlockCols" =>
           /\ nKnownRows' = nSourceRows /\ nSourceRows' = nSourceRows
           /\ ~colsLocked' ]_vars

\* A query has discovered a row under the lock: the row is known and is not
\* a source row, and its width is not counted in nKnownCols
C14_DiscoveredUnderLock ==
  /\ colsLocked /\ call.op = "updateGSORow"
  /\ nKnownRows = nSourceRows + 1
  /\ nKnownCols < initRowSize[nKnownRows - 1]

\* sum over j < n of T(i, j) * rows[srcBase + j][c]
RECURSIVE transformSum(_, _, _, _, _, _)
transformSum(T, rows, srcBase, i, c, n) ==
  IF n <= 0 THEN 0
  ELSE transformSum(T, rows, srcBase, i, c, n - 1)
         + T[i + 1][n] * rows[srcBase + n - 1][c]

C17_RefusesStaleColumn ==
  [][ (/\ call'.op = "updateGSORow"
       /\ call'.i < nKnownRows
       /\ \E j \in gsoProcessed(Cur, call'.i, call'.j) :
            j # call'.i /\ gsoValidCols[j] < j) =>
        /\ ~call'.ok
        /\ mu' = mu /\ r' = r
        /\ gsoValidCols'[call'.i] = gsoValidCols[call'.i] ]_vars

\* A call on known rows has processed column 1 of row i through mu(1, 0)
\* of a row 1 whose valid prefix is empty and whose mu(1, 0) is not that of
\* the basis
C17_ComputedFromStaleRow ==
  /\ call.op = "updateGSORow" /\ call.i >= 2 /\ call.j >= 1
  /\ gsoValidCols[1] = 0
  /\ IF call.ok THEN gsoValidCols[call.i] > 1
                ELSE gsoValidCols[call.i] = 0 /\ is_finite(mu[call.i][0])
  /\ r[call.i][1] =
       F_sub(getGram(Cur, call.i, 1), F_mul(mu[1][0], r[call.i][0]))
  /\ mu[1][0] # gsoMuOfBasis(1, 0)

\* C18: in every reachable state and for every known row i,
\* 0 <= gso_valid_cols[i] <= i + 1; this holds after update_gso_row(i, last_j)
\* for every last_j with 0 <= last_j < n_source_rows and after move_row.
C18_ValidWithinRow ==
  \A i \in Rows :
    i < nKnownRows => (0 <= gsoValidCols[i] /\ gsoValidCols[i] <= i + 1)

\* A call with last_j > i that passed the checks of updateGSORow has written
\* r(i, last_j) and marked last_j + 1 columns of row i valid
C18_ValidBeyondDiagonal ==
  /\ call.op = "updateGSORow" /\ call.ok /\ call.j > call.i
  /\ call.j < nSourceRows
  /\ gsoValidCols[call.i] = call.j + 1
  /\ ~is_nan(r[call.i][call.j])

\* The index, before move_row(old, new), of the row that is at index k after
moveSrc(old, new, k) ==
  IF new > old
    THEN (IF k < old \/ k > new THEN k ELSE IF k = new THEN old ELSE k + 1)
    ELSE (IF k < new \/ k > old THEN k ELSE IF k = new THEN old ELSE k - 1)

\* C19: move_row(old, new) applies the rotation of the slice between old and
\* new to the rows of b, mu and r, to u, u_inv_t, bf and row_expo where the
\* engine keeps them, and to gso_valid_cols after cutting the entries from
\* min(old, new) to n_known_rows down to min(old, new); the Gram entries of
\* the rows known afterwards are those of the rows they come from;
\* init_row_size is rotated only when new > old and new >= n_known_rows, and
\* init_row_size[new] is then recomputed if old was known; b = identity(3),
\* move_row(0, 2) gives b = [[0,1,0],[0,0,1],[1,0,0]].
C19_MoveRowRotation ==
  [][ call'.op = "moveRow" =>
        LET old == call'.i
            new == call'.j
            lo  == Min(old, new)
            src(k) == moveSrc(old, new, k)
            cut(k) == IF lo <= k /\ k < nKnownRows
                        THEN Min(gsoValidCols[k], lo) ELSE gsoValidCols[k]
        IN  /\ \A k \in Rows :
                 /\ b'[k] = b[src(k)] /\ mu'[k] = mu[src(k)] /\ r'[k] = r[src(k)]
                 /\ u'[k] = (IF enableTransform THEN u[src(k)] ELSE u[k])
                 /\ uInvT'[k] = (IF enableTransform /\ enableInvTransform
                                   THEN uInvT[src(k)] ELSE uInvT[k])
                 /\ bf'[k] = (IF enableIntGram THEN bf[k] ELSE bf[src(k)])
                 /\ rowExpo'[k] = (IF enableRowExpo THEN rowExpo[src(k)]
                                                    ELSE rowExpo[k])
                 /\ gsoValidCols'[k] = cut(src(k))
            /\ \A i \in Rows, j \in Rows :
                 (j <= i /\ i < nKnownRows') =>
                   IF enableIntGram
                     THEN g'[i][j] = symOf(g, src(i), src(j))
                     ELSE gf'[i][j] = symOf(gf, src(i), src(j))
            /\ IF new > old /\ new >= nKnownRows
                 THEN \A k \in Rows :
                        initRowSize'[k] =
                          IF k = new /\ old < nKnownRows
                            THEN Max(sizeNZ(b'[new]), 1)
                            ELSE initRowSize[src(k)]
                 ELSE initRowSize' = initRowSize
            /\ (old = 0 /\ new = 2) =>
                 LET R == moveRow([Cur EXCEPT !.b = IdMat], 0, 2).b
                 IN  R[0] = IdMat[1] /\ R[1] = IdMat[2] /\ R[2] = IdMat[0] ]_vars

\* A move between known rows of different widths: init_row_size has kept its
\* order and is no longer the width of the row at each index
C19_InitRowSizeStays ==
  /\ call.op = "moveRow" /\ call.i < nKnownRows /\ call.j < nKnownRows
  /\ \E k \in Rows : initRowSize[k] # Max(sizeNZ(b[k]), 1)

\* C19 as stated: every row-indexed component the engine keeps, init_row_size
\* and gso_valid_cols included, is rotated with b
C19_EveryComponentRotated ==
  [][ call'.op = "moveRow" =>
        \A k \in Rows :
          LET s == moveSrc(call'.i, call'.j, k)
          IN  /\ b'[k] = b[s] /\ mu'[k] = mu[s] /\ r'[k] = r[s]
              /\ initRowSize'[k] = initRowSize[s]
              /\ gsoValidCols'[k] = gsoValidCols[s] ]_vars

\* C20: n_source_rows <= n_known_rows in every reachable state, and they are
\* equal in every reachable state in which cols_locked is false.
C20_SourceRowsBound ==
  /\ nSourceRows <= nKnownRows
  /\ ~colsLocked => nSourceRows = nKnownRows

\* Two rows discovered under the lock: n_source_rows is two below
\* n_known_rows
C20_TwoRowsUnderLock ==
  colsLocked /\ nSourceRows >= 1 /\ nKnownRows = nSourceRows + 2

\* C21: with int_gram disabled, in every state outside a bracket reached by
\* discoveries, bracketed mutators closed by row_op_end and move_row, every
\* gf(i,j) with j <= i < n_known_rows is NaN or the inner product of the
\* current bf[i] and bf[j], and bf[i] is the image of the current b[i]
\* (scaled by 2^row_expo[i] where row exponents are kept).
C21_FloatGramFresh ==
  (~enableIntGram /\ ~inBracket) =>
    /\ \A i \in Rows, j \in Rows :
         (j <= i /\ i < nKnownRows) =>
           \/ is_nan(gf[i][j])
           \/ gf[i][j] = dotF(bf[i], bf[j], NumCols)
    /\ \A i \in Rows, c \in Cols :
         F_mul_2si(bf[i][c], rowExpo[i]) = set_z(b[i][c])

\* A known row has been changed by a mutator, its bracket closed, and a Gram
\* entry of a later row against it computed again
C21_RecomputedAfterMutation ==
  /\ ~enableIntGram /\ ~inBracket /\ call.op = "updateGSORow"
  /\ \E i \in Rows, j \in Rows :
       /\ j < i /\ i < nKnownRows
       /\ \A basis \in InitBases, k \in Rows : b[j] # basis[k]
       /\ ~is_nan(gf[i][j])

\* C22: row_swap(i, j) on an engine with inv_transform_enabled is rejected
\* and leaves b, u, u_inv_t and g unchanged; it never swaps b and u while
\* leaving u_inv_t unswapped.
C22_SwapRejected ==
  [][ (call'.op = "rowSwap" /\ enableInvTransform) =>
        /\ ~call'.ok
        /\ b' = b /\ u' = u /\ uInvT' = uInvT /\ g' = g ]_vars

\* rowSwap has returned on an engine that keeps the inverse transform: the
\* rows of b and u are exchanged, those of u_inv_t are not, and u_inv_t is no
\* longer the inverse transpose of u
C22_SwappedWithoutInverse ==
  /\ call.op = "rowSwap" /\ call.ok /\ enableInvTransform
  /\ u[call.i] = IdMat[call.j] /\ u[call.j] = IdMat[call.i]
  /\ uInvT = IdMat
  /\ b[call.i] \in { basis[call.j] : basis \in InitBases }
  /\ dotZ(u[call.i], uInvT[call.i], NumRows) # 1

C25_CreatedRowsInitialised ==
  [][ /\ Cardinality(DOMAIN mu') >= Cardinality(DOMAIN b')
      /\ Cardinality(DOMAIN mu') >= Cardinality(DOMAIN mu)
      /\ call'.op = "createRows" =>
           \A i \in (DOMAIN b') \ (DOMAIN b) :
             /\ initRowSize'[i] = Max(1, sizeNZ(b'[i]))
             /\ ~enableIntGram =>
                  \A c \in Cols :
                    F_mul_2si(bf'[i][c], IF enableRowExpo THEN rowExpo'[i] ELSE 0)
                      = set_z(b'[i][c]) ]_vars

\* createRows has returned a zero row whose init_row_size and bf are those
\* of the row that was at its index before d was shrunk
C25_StaleCreatedRow ==
  /\ call.op = "createRows" /\ ~enableIntGram
  /\ \A c \in Cols : b[call.i][c] = 0
  /\ initRowSize[call.i] > 1
  /\ \E c \in Cols : bf[call.i][c] # << 0, 1 >>

\* C26: get_slide_potential(start_row, end_row, block_size) only reads GSO
\* rows inside [start_row, end_row): every row whose r(i, i) enters the sum
\* lies in that interval, for every start_row >= 0.
C26_ReadsInsideInterval ==
  call.op = "get_slide_potential" =>
    \A row \in DOMAIN call.potential :
      call.potential[row] # 0 => (call.i <= row /\ row < call.j)

\* get_slide_potential has returned for an interval that starts after row 0
\* with r(0, 0) in its sum
C26_ReadsRowZero ==
  /\ call.op = "get_slide_potential" /\ call.i > 0
  /\ call.potential[0] > 0
====
